---- MODULE Spec2Model ----
(***************************************************************************)
(* Model of src/monitor_trades.py: the TradeMonitor polling loop.          *)
(*                                                                         *)
(* The log file is a sequence of bytes written by the monitored server.    *)
(* Four kinds of byte are distinguished, enough to exercise the decoder    *)
(* and the fatal detector:                                                 *)
(*   "x"  an ASCII byte of ordinary log text                               *)
(*   "F"  an ASCII byte standing for text that matches a fatal pattern     *)
(*   "L"  the lead byte of a two-byte UTF-8 character                      *)
(*   "T"  a UTF-8 continuation byte                                        *)
(* The decoded window is a sequence of characters: "x", "F" and "U" (the   *)
(* character encoded by the byte pair L T).                                *)
(*                                                                         *)
(* The report file is a sequence of blocks.                                *)
(***************************************************************************)
EXTENDS Integers, Sequences, FiniteSets, TLC

\* Longest log file (in bytes) the server writes in the model.
MaxLog == 3

Bytes == {"x", "F", "L", "T"}

VARIABLES
    log,            \* bytes of LOG_FILE
    report_exists,  \* os.path.exists(REPORT_FILE)
    report,         \* blocks of REPORT_FILE (<<>> when absent or empty)
    last_position,  \* self.last_position
    iteration,      \* self.iteration
    content,        \* local `content` of run()
    has_error,      \* local `has_error` of run()
    pc,             \* position of the driver in run()
    raised,         \* the exception raised last in the current cycle ("none" if none)
    stop_calls      \* number of invocations of stop_server()

vars == <<log, report_exists, report, last_position, iteration, content,
          has_error, pc, raised, stop_calls>>

----------------------------------------------------------------------------
(* Positions of run().  *)
CyclePcs == {"read", "check", "analyze", "write", "incr", "sleep"}
StopPcs == {"stop_server_376", "stop_server_397"}

\* The states of the polling driver, read off the position in run().
DriverState ==
    IF pc = "done" THEN "STOPPED"
    ELSE IF pc \in StopPcs THEN "STOPPING_ON_ERROR"
    ELSE "RUNNING"

----------------------------------------------------------------------------
(* read_new_logs: open(..., encoding='utf-8', errors='ignore'), seek, read, tell *)

\* f.seek(pos); f.read(): the raw bytes from offset pos to end of file
\* (nothing when pos is at or beyond the end).
read_bytes(file, pos) ==
    IF pos >= Len(file) THEN <<>> ELSE SubSeq(file, pos + 1, Len(file))

\* The utf-8 decoder with errors='ignore', run to the end of the data
\* (final): a lead byte followed by a continuation byte is one character;
\* a lead byte without its continuation and a stray continuation byte are
\* dropped.
RECURSIVE decode(_)
decode(b) ==
    IF b = <<>> THEN <<>>
    ELSE IF b[1] = "L"
         THEN IF Len(b) >= 2 /\ b[2] = "T"
              THEN <<"U">> \o decode(Tail(Tail(b)))
              ELSE decode(Tail(b))
    ELSE IF b[1] = "T" THEN decode(Tail(b))
    ELSE <<b[1]>> \o decode(Tail(b))

\* The variant that advances by the number of characters returned.
tell_chars(file, pos) == pos + Len(decode(read_bytes(file, pos)))

\* The variant that reports the size of the file.
tell_size(file, pos) == Len(file)

\* f.tell() after f.seek(pos); f.read(): the byte offset the read stopped
\* at, which is the end of the file, or pos when pos is at or beyond the end
\* (a seek beyond the end succeeds and the read returns nothing).
tell(file, pos) == IF pos >= Len(file) THEN pos ELSE Len(file)

----------------------------------------------------------------------------
(* check_for_errors *)

\* The fatal patterns, in the order of the list.
error_patterns == <<"F">>

\* re.search(pattern, content, re.IGNORECASE)
re_search(pattern, c) == \E i \in 1..Len(c) : c[i] = pattern

\* The variant that finds nothing.
check_never(c) == [has_error |-> FALSE, pattern |-> "None"]

\* The first pattern of the list found in the window, if any.
check_for_errors(c) ==
    IF \E k \in 1..Len(error_patterns) : re_search(error_patterns[k], c)
    THEN LET k == CHOOSE j \in 1..Len(error_patterns) :
                      /\ re_search(error_patterns[j], c)
                      /\ \A m \in 1..(j - 1) : ~re_search(error_patterns[m], c)
         IN  [has_error |-> TRUE, pattern |-> error_patterns[k]]
    ELSE [has_error |-> FALSE, pattern |-> "None"]

----------------------------------------------------------------------------
(* write_report *)

\* Blocks of the report file.
Header == [kind |-> "header", n |-> 0]
Section(k) == [kind |-> "section", n |-> k]
\* A section whose writing was cut short by an error (its "## Scan #k" line
\* is the first thing written).
Partial(k) == [kind |-> "partial", n |-> k]
\* What an earlier run of the monitor left in the file.
Old == [kind |-> "old", n |-> 0]

\* The variant that writes the same number every time.
scan_label_same(it) == 1

\* The number written in the "## Scan #" line: self.iteration + 1.
scan_label(it) == it + 1

\* `if self.iteration == 0 or not os.path.exists(REPORT_FILE)`
header_needed(it, exists) == it = 0 \/ ~exists

\* The places where write_report can raise inside its try block, and "ok".
WriteOutcomes == {"ok", "open_w_fails", "header_write_fails",
                  "open_a_fails", "section_write_fails"}

\* The report file after write_report ran with the given outcome.
report_after(outcome, it, exists, rep) ==
    LET hn == header_needed(it, exists)
        withHeader == IF hn THEN <<Header>> ELSE rep
    IN  CASE outcome = "ok" ->
               [exists |-> TRUE, blocks |-> Append(withHeader, Section(scan_label(it)))]
          [] outcome = "open_w_fails" ->
               [exists |-> exists, blocks |-> rep]
          [] outcome = "header_write_fails" ->
               [exists |-> TRUE, blocks |-> <<>>]
          [] outcome = "open_a_fails" ->
               [exists |-> TRUE, blocks |-> withHeader]
          [] outcome = "section_write_fails" ->
               [exists |-> TRUE, blocks |-> Append(withHeader, Partial(scan_label(it)))]

----------------------------------------------------------------------------
Init ==
    /\ log = <<>>
    /\ report_exists \in BOOLEAN
    /\ report = IF report_exists THEN <<Old>> ELSE <<>>
    /\ last_position = 0
    /\ iteration = 0
    /\ content = <<>>
    /\ has_error = FALSE
    /\ pc = "read"
    /\ raised = "none"
    /\ stop_calls = 0

(* The environment: the server writing the log, the log being truncated or *)
(* rotated, the report file being deleted.  run() looks at the log only in *)
(* read_new_logs and at the report only in write_report, so a change made  *)
(* at any other position of a cycle is seen exactly as if it were made     *)
(* during the sleep that follows; the environment acts during the sleep.   *)
AppendLog ==
    /\ pc = "sleep"
    /\ Len(log) < MaxLog
    /\ \E b \in Bytes : log' = Append(log, b)
    /\ UNCHANGED <<report_exists, report, last_position, iteration, content,
                   has_error, pc, raised, stop_calls>>

TruncateLog ==
    /\ pc = "sleep"
    /\ \E k \in 0..(Len(log) - 1) : log' = SubSeq(log, 1, k)
    /\ UNCHANGED <<report_exists, report, last_position, iteration, content,
                   has_error, pc, raised, stop_calls>>

DeleteReport ==
    /\ pc = "sleep"
    /\ report_exists
    /\ report_exists' = FALSE
    /\ report' = <<>>
    /\ UNCHANGED <<log, last_position, iteration, content, has_error, pc,
                   raised, stop_calls>>

(* run(): content = self.read_new_logs(); if content: ... *)
read_new_logs_ok ==
    /\ pc = "read"
    /\ LET b == read_bytes(log, last_position)
           c == decode(b)
       IN  /\ content' = c
           /\ last_position' = tell(log, last_position)
           /\ pc' = IF c # <<>> THEN "check" ELSE "sleep"
    /\ UNCHANGED <<log, report_exists, report, iteration, has_error, raised,
                   stop_calls>>

\* The variant in which the exception leaves read_new_logs.
read_new_logs_reraises ==
    /\ pc = "read"
    /\ raised' = "read_io"
    /\ stop_calls' = stop_calls + 1
    /\ pc' = "stop_server_397"
    /\ UNCHANGED <<log, report_exists, report, last_position, iteration, content,
                   has_error>>

\* An exception inside read_new_logs (open, seek, read or tell fails): it is
\* caught there and "" is returned, so run() skips to the sleep.
read_new_logs_fails ==
    /\ pc = "read"
    /\ raised' = "read_io"
    /\ content' = <<>>
    /\ pc' = "sleep"
    /\ UNCHANGED <<log, report_exists, report, last_position, iteration,
                   has_error, stop_calls>>

(* has_error, error_pattern = self.check_for_errors(content)               *)
(* if has_error: print; self.stop_server() is entered                      *)
check_step ==
    /\ pc = "check"
    /\ LET r == check_for_errors(content)
       IN  /\ has_error' = r.has_error
           /\ IF r.has_error
              THEN /\ stop_calls' = stop_calls + 1
                   /\ pc' = "stop_server_376"
              ELSE /\ pc' = "analyze"
                   /\ UNCHANGED stop_calls
    /\ UNCHANGED <<log, report_exists, report, last_position, iteration, content,
                   raised>>

(* stats = self.analyze_logs(content) *)
analyze_logs ==
    /\ pc = "analyze"
    /\ pc' = "write"
    /\ UNCHANGED <<log, report_exists, report, last_position, iteration, content,
                   has_error, raised, stop_calls>>

(* self.write_report(stats): every exception raised inside is caught there *)
write_report ==
    /\ pc = "write"
    /\ \E outcome \in WriteOutcomes :
          /\ outcome \in {"open_w_fails", "header_write_fails"}
                => header_needed(iteration, report_exists)
          /\ LET r == report_after(outcome, iteration, report_exists, report)
             IN  /\ report_exists' = r.exists
                 /\ report' = r.blocks
          /\ raised' = IF outcome = "ok" THEN raised ELSE "write_io"
    /\ pc' = "incr"
    /\ UNCHANGED <<log, last_position, iteration, content, has_error, stop_calls>>

\* The variant that counts a cycle twice.
increment_twice ==
    /\ pc = "incr"
    /\ iteration' = iteration + 2
    /\ pc' = "sleep"
    /\ UNCHANGED <<log, report_exists, report, last_position, content, has_error,
                   raised, stop_calls>>

(* self.iteration += 1 *)
increment ==
    /\ pc = "incr"
    /\ iteration' = iteration + 1
    /\ pc' = "sleep"
    /\ UNCHANGED <<log, report_exists, report, last_position, content, has_error,
                   raised, stop_calls>>

(* time.sleep(CHECK_INTERVAL) returns; the loop starts its next cycle *)
sleep ==
    /\ pc = "sleep"
    /\ pc' = "read"
    /\ raised' = "none"
    /\ UNCHANGED <<log, report_exists, report, last_position, iteration, content,
                   has_error, stop_calls>>

\* The variant in which the interrupt takes the error path.
on_KeyboardInterrupt_stops ==
    /\ pc \in CyclePcs \cup StopPcs
    /\ raised' = "KeyboardInterrupt"
    /\ stop_calls' = stop_calls + 1
    /\ pc' = "stop_server_397"
    /\ UNCHANGED <<log, report_exists, report, last_position, iteration, content,
                   has_error>>

(* A KeyboardInterrupt is delivered.  Inside the try block (the cycle and  *)
(* the stop_server() call of line 376) `except KeyboardInterrupt` prints   *)
(* and breaks.  It is not an Exception, so read_new_logs and write_report  *)
(* do not contain it.  During the stop_server() call of the `except        *)
(* Exception` clause no handler is left and run() ends with the interrupt. *)
on_KeyboardInterrupt ==
    /\ pc \in CyclePcs \cup StopPcs
    /\ raised' = "KeyboardInterrupt"
    /\ pc' = "done"
    /\ UNCHANGED <<log, report_exists, report, last_position, iteration, content,
                   has_error, stop_calls>>

\* The variant that logs the error and goes on with the loop.
on_Exception_continue ==
    /\ pc \in {"check", "analyze", "sleep", "stop_server_376"}
    /\ raised' = "Exception"
    /\ pc' = "sleep"
    /\ UNCHANGED <<log, report_exists, report, last_position, iteration, content,
                   has_error, stop_calls>>

(* An Exception reaches `except Exception`: print; self.stop_server() is   *)
(* entered.  It comes from check_for_errors, analyze_logs, time.sleep, or  *)
(* from the stop_server() call of line 376 (subprocess.run raises when the *)
(* pkill or lsof executable is missing).                                   *)
on_Exception ==
    /\ pc \in {"check", "analyze", "sleep", "stop_server_376"}
    /\ raised' = "Exception"
    /\ stop_calls' = stop_calls + 1
    /\ pc' = "stop_server_397"
    /\ UNCHANGED <<log, report_exists, report, last_position, iteration, content,
                   has_error>>

(* stop_server() returns: line 376 is followed by print and break, line    *)
(* 397 by break.                                                           *)
stop_server_returns ==
    /\ pc \in StopPcs
    /\ pc' = "done"
    /\ UNCHANGED <<log, report_exists, report, last_position, iteration, content,
                   has_error, raised, stop_calls>>

(* stop_server() called from the `except Exception` clause raises: nothing *)
(* catches it and run() ends with that exception.                          *)
stop_server_397_raises ==
    /\ pc = "stop_server_397"
    /\ raised' = "Exception"
    /\ pc' = "done"
    /\ UNCHANGED <<log, report_exists, report, last_position, iteration, content,
                   has_error, stop_calls>>


Next ==
    \/ AppendLog
    \/ TruncateLog
    \/ DeleteReport
    \/ read_new_logs_ok
    \/ read_new_logs_fails
    \/ check_step
    \/ analyze_logs
    \/ write_report
    \/ increment
    \/ sleep
    \/ on_KeyboardInterrupt
    \/ on_Exception
    \/ stop_server_returns
    \/ stop_server_397_raises

Spec == Init /\ [][Next]_vars

\* The program over a log that is only ever appended to.
NextAppendOnly ==
    \/ AppendLog
    \/ DeleteReport
    \/ read_new_logs_ok
    \/ read_new_logs_fails
    \/ check_step
    \/ analyze_logs
    \/ write_report
    \/ increment
    \/ sleep
    \/ on_KeyboardInterrupt
    \/ on_Exception
    \/ stop_server_returns
    \/ stop_server_397_raises

SpecAppendOnly == Init /\ [][NextAppendOnly]_vars

\* The program in a run during which nobody deletes the report file.
NextNoDelete ==
    \/ AppendLog
    \/ TruncateLog
    \/ read_new_logs_ok
    \/ read_new_logs_fails
    \/ check_step
    \/ analyze_logs
    \/ write_report
    \/ increment
    \/ sleep
    \/ on_KeyboardInterrupt
    \/ on_Exception
    \/ stop_server_returns
    \/ stop_server_397_raises

SpecNoDelete == Init /\ [][NextNoDelete]_vars

----------------------------------------------------------------------------
(* Properties *)

\* The scan sections in the report, complete or cut short, in file order.
Sections(rep) == SelectSeq(rep, LAMBDA b : b.kind \in {"section", "partial"})

\* The blocks of the report that carry a header: a header written in this
\* run, or the file an earlier run left (which starts with its header).
Headers(rep) == SelectSeq(rep, LAMBDA b : b.kind \in {"header", "old"})

\* str.encode('utf-8'): the bytes of a decoded window.
RECURSIVE encode(_)
encode(c) ==
    IF c = <<>> THEN <<>>
    ELSE IF c[1] = "U" THEN <<"L", "T">> \o encode(Tail(c))
    ELSE <<c[1]>> \o encode(Tail(c))

\* A step in which read_new_logs returns without an exception inside.
ReadReturns == pc = "read" /\ pc' \in {"check", "sleep"} /\ raised' = "none"

\* C1: once a window matched a fatal pattern the driver has left RUNNING,
\* and a run that ended after a fatal match has invoked stop_server exactly
\* once, whatever the outcome of the stop_server call.
C1_StopServerExactlyOnce ==
    has_error => /\ DriverState # "RUNNING"
                 /\ stop_calls >= 1
                 /\ (pc = "done" => stop_calls = 1)

\* C2: the fatal detector runs before aggregation (analyze_logs is entered
\* only from a check that found nothing fatal), and from a check of a window
\* holding a fatal pattern the cycle goes to the stop path only; from then
\* on neither the report file nor the iteration count changes.
C2_FatalSuppressesAggregation ==
    [][ /\ (pc' = "analyze" /\ pc # "analyze")
            => (pc = "check" /\ ~(\E i \in DOMAIN content : content[i] = "F"))
        /\ (pc = "check" /\ (\E i \in DOMAIN content : content[i] = "F"))
            => /\ pc' \in StopPcs \cup {"done"}
               /\ UNCHANGED <<report_exists, report, iteration>>
        /\ (pc \in StopPcs \cup {"done"})
            => /\ pc' \in StopPcs \cup {"done"}
               /\ UNCHANGED <<report_exists, report, iteration>>
      ]_vars

\* C2 witness: after one rendered cycle a later window was fatal; the
\* driver is in the stop_server call with the report of the first cycle.
C2_Witness ==
    /\ pc = "stop_server_376"
    /\ has_error
    /\ iteration = 1
    /\ report = <<Header, Section(1)>>

\* C3 as stated: a run that ended by a user interrupt never invoked
\* stop_server.
C3_InterruptNeverStopsServer ==
    (pc = "done" /\ raised = "KeyboardInterrupt") => stop_calls = 0

\* C3 amended: an interrupt delivered while the driver is in a cycle
\* (reading, detecting, aggregating, rendering, counting or sleeping) ends
\* the run at once with stop_server never invoked; an interrupt delivered
\* during the stop_server call that follows a fatal match also ends the run
\* at once, without a further invocation.
C3_InterruptInCycleStopsDirectly ==
    [][ (raised' = "KeyboardInterrupt" /\ raised # "KeyboardInterrupt")
            => /\ pc' = "done"
               /\ stop_calls' = stop_calls
               /\ (pc \in CyclePcs => stop_calls' = 0)
      ]_vars

\* C3 witness: the run ended by an interrupt taken in a cycle that had
\* already rendered a report section.
C3_Witness ==
    /\ pc = "done"
    /\ raised = "KeyboardInterrupt"
    /\ ~has_error
    /\ stop_calls = 0
    /\ iteration = 1

\* C4: an exception that reaches run() (not one contained in read_new_logs
\* or write_report) enters stop_server, and from the stop path no cycle is
\* executed any more: the run ends.
C4_ExceptionStopsServer ==
    [][ /\ (raised' = "Exception" /\ pc \in CyclePcs)
            => (pc' = "stop_server_397" /\ stop_calls' = stop_calls + 1)
        /\ (pc \in StopPcs \cup {"done"}) => (pc' \in StopPcs \cup {"done"})
        /\ (pc = "stop_server_397") => (pc' \in {"stop_server_397", "done"})
      ]_vars

\* C4 witness: an exception in a cycle without a fatal match ended the run
\* after one stop_server call.
C4_Witness ==
    /\ pc = "done"
    /\ raised = "Exception"
    /\ ~has_error
    /\ stop_calls = 1

\* C5: a read that fails inside read_new_logs gives the empty window, keeps
\* the cursor and takes run() to the sleep; a write that fails inside
\* write_report takes run() to the iteration count and then the sleep;
\* neither invokes stop_server nor leaves RUNNING, and the step after the
\* sleep is the next cycle's read, never a repetition of the failed call.
C5_IoFailureContained ==
    [][ /\ (pc = "read" /\ raised' = "read_io")
            => /\ content' = <<>>
               /\ last_position' = last_position
               /\ pc' = "sleep"
               /\ stop_calls' = 0
               /\ UNCHANGED <<report_exists, report, iteration>>
        /\ (pc = "write" /\ raised' = "write_io")
            => /\ pc' = "incr"
               /\ stop_calls' = 0
               /\ UNCHANGED <<last_position, iteration>>
        /\ (raised \in {"read_io", "write_io"} /\ raised' = raised)
            => /\ pc' \in {pc, "sleep"}
               /\ stop_calls' = 0
        /\ (raised \in {"read_io", "write_io"} /\ raised' = "none")
            => (pc = "sleep" /\ pc' = "read")
      ]_vars

\* C5 witness: a cycle's write_report failed before writing its section, the
\* cycle was counted all the same, and the driver is asleep, still running.
C5_Witness ==
    /\ pc = "sleep"
    /\ raised = "write_io"
    /\ iteration = 1
    /\ stop_calls = 0
    /\ Sections(report) = <<>>

\* C6: in a run in which the report file is never deleted, a report holding
\* a scan section holds the header block exactly once, before every section;
\* and a write_report that finds no file and succeeds leaves a file made of
\* a fresh header followed by that cycle's section.
C6_HeaderOnce ==
    /\ [](Sections(report) # <<>>
            => /\ Len(Headers(report)) = 1
               /\ report[1].kind \in {"header", "old"})
    /\ [][ (pc = "write" /\ ~report_exists /\ pc' = "incr" /\ raised' # "write_io")
            => report' = <<Header, Section(iteration + 1)>> ]_vars

\* C7 as stated: a read that returns gives back exactly the bytes between
\* the cursor and the end of the file, and moves the cursor by their number.
C7_ReadReturnsExactBytes ==
    [][ ReadReturns
            => /\ encode(content') = read_bytes(log, last_position)
               /\ last_position' = last_position + Len(encode(content'))
      ]_vars

\* C7 amended: over an append-only log the cursor never passes the end of
\* the file and moves only in read_new_logs; a read that returns gives back
\* the decoding (undecodable bytes dropped) of exactly the bytes between the
\* cursor and the end of the file and moves the cursor by the number n of
\* those bytes; with n = 0 the window is empty and the cursor keeps its
\* value.
C7_ReadReturnsDecodedNewBytes ==
    /\ [](last_position <= Len(log))
    /\ [][ /\ ReadReturns
              => /\ content' = decode(SubSeq(log, last_position + 1, Len(log)))
                 /\ last_position' - last_position = Len(log) - last_position
                 /\ (Len(log) = last_position
                        => (content' = <<>> /\ last_position' = last_position))
           /\ (last_position' # last_position) => ReadReturns
         ]_vars

\* C7 witness: the second read took the two bytes appended since the first
\* one, a text byte and a lead byte whose continuation has not been written
\* yet; the window holds the text byte only.
C7_Witness ==
    /\ pc = "check"
    /\ Len(log) = 3
    /\ log[2] = "x"
    /\ log[3] = "L"
    /\ last_position = 3
    /\ content = <<"x">>
    /\ iteration = 1

\* C8: the cursor starts at 0 and never decreases; a read of a file shorter
\* than the cursor returns the empty window and keeps the cursor, and so
\* does a read that fails.
C8_CursorMonotonic ==
    /\ [](last_position >= 0)
    /\ [][ /\ last_position' >= last_position
           /\ (pc = "read" /\ pc' # "done" /\ Len(log) < last_position)
                => (content' = <<>> /\ last_position' = last_position)
         ]_vars

\* C8 witness: the log was cut below the cursor and the cycle that followed
\* read an empty window with the cursor still beyond the end of the file.
C8_Witness ==
    /\ pc = "sleep"
    /\ Len(log) < last_position
    /\ content = <<>>
    /\ raised = "none"
    /\ iteration >= 1

\* C9: the iteration count changes only at the end of a cycle whose window
\* was non-empty and not fatal, after aggregation and rendering, and then by
\* exactly 1; a cycle reaches its sleep either that way or straight from a
\* read that gave an empty window, with the count unchanged; and a read is
\* only ever entered from the sleep.
C9_IterationAndSleep ==
    [][ /\ (iteration' # iteration)
            => /\ iteration' = iteration + 1
               /\ pc = "incr"
               /\ pc' = "sleep"
               /\ content # <<>>
               /\ ~has_error
        /\ (pc' = "sleep" /\ pc # "sleep")
            => \/ (pc = "incr" /\ iteration' = iteration + 1)
               \/ (pc = "read" /\ content' = <<>> /\ iteration' = iteration)
        /\ (pc' = "incr" /\ pc # "incr") => pc = "write"
        /\ (pc' = "write" /\ pc # "write") => pc = "analyze"
        /\ (pc' = "read" /\ pc # "read") => pc = "sleep"
      ]_vars

\* C9 witness: two cycles with work were counted, and a third cycle with an
\* empty window left the count alone and went to sleep.
C9_Witness ==
    /\ pc = "sleep"
    /\ iteration = 2
    /\ content = <<>>
    /\ raised = "none"

\* C10 as stated: in a run in which the report file is never deleted, at
\* every cycle boundary the report holds as many scan sections as the
\* iteration count, the k-th of them labelled k.
C10_SectionsMatchIteration ==
    (pc \in {"sleep", "read"})
        => /\ Len(Sections(report)) = iteration
           /\ \A k \in 1..Len(Sections(report)) : Sections(report)[k].n = k

\* C10 amended: in a run in which the report file is never deleted, the
\* scan sections are labelled in strictly increasing order, no label twice;
\* a section written in a cycle is labelled iteration + 1; at every cycle
\* boundary every label is at most the iteration count, so the report never
\* holds more sections than that.
C10_SectionsIncreasing ==
    /\ [](LET s == Sections(report)
          IN  /\ \A j, k \in 1..Len(s) : j < k => s[j].n < s[k].n
              /\ (pc \in CyclePcs \ {"incr"})
                    => /\ \A k \in 1..Len(s) : s[k].n \in 1..iteration
                       /\ Len(s) <= iteration)
    /\ [][ (pc = "write" /\ Len(Sections(report')) > Len(Sections(report)))
              => report'[Len(report')].n = iteration + 1 ]_vars

\* C10 witness: the first cycle's write_report failed before writing its
\* section, the second cycle's section is labelled 2, and the count is 2.
C10_Witness ==
    /\ pc = "sleep"
    /\ iteration = 2
    /\ Sections(report) = <<Section(2)>>

====
